---- MODULE Spec2Model ----
(***************************************************************************)
(* Model of qiskit.transpiler.preset_passmanagers.generate_preset_pass_-   *)
(* manager: resolution of the PassManagerConfig from explicit arguments,   *)
(* a Target and a Backend, followed by the dispatch on optimization_level. *)
(*                                                                         *)
(* Python values are modelled as tuples: None is the empty tuple, a string *)
(* or number v is <<v>>, and a value obtained from a device descriptor     *)
(* carries the descriptor and the accessor it came from.                   *)
(***************************************************************************)
EXTENDS Integers, Sequences, FiniteSets, TLC

VARIABLES
    pc,                     \* position in generate_preset_pass_manager
    args,                   \* the arguments the current call was made with
    coupling_map,           \* the six parameters the function rebinds
    basis_gates,
    instruction_durations,
    inst_map,
    timing_constraints,
    backend_properties,
    pm_config,              \* the PassManagerConfig built at lines 177-180
    pm,                     \* the pass manager bound at lines 182-189
    invoked,                \* builders called so far: <<level, config>> each
    outcome,                \* how the call ended: returned value or raised error
    remembered              \* an earlier completed call kept for comparison

vars == <<pc, args, coupling_map, basis_gates, instruction_durations, inst_map,
          timing_constraints, backend_properties, pm_config, pm, invoked,
          outcome, remembered>>

---------------------------------------------------------------------------
\* Bounds of the model.

NumTargets == 1
NumBackends == 1
MaxLevel == 3
MaxSupplied == 1

---------------------------------------------------------------------------
\* Values.

None == <<>>

DerivedFields == {"coupling_map", "basis_gates", "instruction_durations",
                  "inst_map", "timing_constraints", "backend_properties"}

NonDerivedFields == {"initial_layout", "layout_method", "routing_method",
                     "translation_method", "scheduling_method",
                     "approximation_degree", "seed_transpiler",
                     "unitary_synthesis_method",
                     "unitary_synthesis_plugin_config"}

Targets == {<<"Target", i>> : i \in 1..NumTargets}
Backends == {<<"Backend", i>> : i \in 1..NumBackends}

Levels == (-1 .. MaxLevel) \cup {7}

ExplicitValue(f) == <<"explicit", f>>

\* Signature defaults of the non-derived parameters.
SignatureDefault(f) == IF f = "unitary_synthesis_method" THEN <<"default">> ELSE None

\* Values a caller may pass for each non-derived parameter.
NonDerivedDomain(f) ==
    CASE f = "initial_layout" -> {None, <<"layout">>}
      [] f = "layout_method" -> {None, <<"sabre">>, <<"bogus">>}
      [] f = "routing_method" -> {None, <<"basic">>, <<"bogus">>}
      [] f = "translation_method" -> {None, <<"translator">>, <<"bogus">>}
      [] f = "scheduling_method" -> {None, <<"alap">>, <<"bogus">>}
      [] f = "approximation_degree" -> {None, <<1>>}
      [] f = "seed_transpiler" -> {None, <<42>>}
      [] f = "unitary_synthesis_method" -> {<<"default">>, <<"plugin">>}
      [] f = "unitary_synthesis_plugin_config" -> {None, <<"plugin_config">>}

NonDerivedInputs ==
    {n \in [initial_layout : NonDerivedDomain("initial_layout"),
            layout_method : NonDerivedDomain("layout_method"),
            routing_method : NonDerivedDomain("routing_method"),
            translation_method : NonDerivedDomain("translation_method"),
            scheduling_method : NonDerivedDomain("scheduling_method"),
            approximation_degree : NonDerivedDomain("approximation_degree"),
            seed_transpiler : NonDerivedDomain("seed_transpiler"),
            unitary_synthesis_method : NonDerivedDomain("unitary_synthesis_method"),
            unitary_synthesis_plugin_config :
                NonDerivedDomain("unitary_synthesis_plugin_config")] :
        Cardinality({f \in NonDerivedFields : n[f] # SignatureDefault(f)}) <= MaxSupplied}

DerivedInputs == [DerivedFields -> {0, 1}]

MakeArguments(level, b, t, d, n) ==
    [optimization_level |-> level,
     backend |-> b,
     target |-> t,
     basis_gates |-> IF d["basis_gates"] = 1 THEN ExplicitValue("basis_gates") ELSE None,
     inst_map |-> IF d["inst_map"] = 1 THEN ExplicitValue("inst_map") ELSE None,
     coupling_map |-> IF d["coupling_map"] = 1 THEN ExplicitValue("coupling_map") ELSE None,
     instruction_durations |-> IF d["instruction_durations"] = 1
                               THEN ExplicitValue("instruction_durations") ELSE None,
     backend_properties |-> IF d["backend_properties"] = 1
                            THEN ExplicitValue("backend_properties") ELSE None,
     timing_constraints |-> IF d["timing_constraints"] = 1
                            THEN ExplicitValue("timing_constraints") ELSE None,
     initial_layout |-> n["initial_layout"],
     layout_method |-> n["layout_method"],
     routing_method |-> n["routing_method"],
     translation_method |-> n["translation_method"],
     scheduling_method |-> n["scheduling_method"],
     approximation_degree |-> n["approximation_degree"],
     seed_transpiler |-> n["seed_transpiler"],
     unitary_synthesis_method |-> n["unitary_synthesis_method"],
     unitary_synthesis_plugin_config |-> n["unitary_synthesis_plugin_config"]]

NoArguments ==
    MakeArguments(0, None, None, [f \in DerivedFields |-> 0],
                  [f \in NonDerivedFields |-> SignatureDefault(f)])

---------------------------------------------------------------------------
\* Device descriptors (external collaborators).

target_build_coupling_map(t) == <<"target", t[2], "coupling_map">>
target_operation_names(t) == <<"target", t[2], "basis_gates">>
target_durations(t) == <<"target", t[2], "instruction_durations">>
target_instruction_schedule_map(t) == <<"target", t[2], "inst_map">>
target_timing_constraints(t) == <<"target", t[2], "timing_constraints">>
target_to_backend_properties(t) == <<"target", t[2], "backend_properties">>

TargetAccessor(t, f) ==
    CASE f = "coupling_map" -> target_build_coupling_map(t)
      [] f = "basis_gates" -> target_operation_names(t)
      [] f = "instruction_durations" -> target_durations(t)
      [] f = "inst_map" -> target_instruction_schedule_map(t)
      [] f = "timing_constraints" -> target_timing_constraints(t)
      [] f = "backend_properties" -> target_to_backend_properties(t)

BackendAccessor(b, f) == <<"backend", b[2], f>>

\* The target of a backend, for the configuration's own target field.
backend_target(b) == <<"backend", b[2], "target">>

---------------------------------------------------------------------------
\* generate_preset_pass_manager, lines 39-192.

\* Parameter binding with a default that survives between calls.
LeakyParameters(a) ==
    [coupling_map |-> IF a.coupling_map = None THEN coupling_map ELSE a.coupling_map,
     basis_gates |-> IF a.basis_gates = None THEN basis_gates ELSE a.basis_gates,
     instruction_durations |-> IF a.instruction_durations = None
                               THEN instruction_durations ELSE a.instruction_durations,
     inst_map |-> IF a.inst_map = None THEN inst_map ELSE a.inst_map,
     timing_constraints |-> IF a.timing_constraints = None
                            THEN timing_constraints ELSE a.timing_constraints,
     backend_properties |-> IF a.backend_properties = None
                            THEN backend_properties ELSE a.backend_properties]

\* The six parameters the body rebinds, as bound on entry.
Parameters(a) ==
    [coupling_map |-> a.coupling_map,
     basis_gates |-> a.basis_gates,
     instruction_durations |-> a.instruction_durations,
     inst_map |-> a.inst_map,
     timing_constraints |-> a.timing_constraints,
     backend_properties |-> a.backend_properties]

\* The target consulted only when nothing at all was given explicitly.
UseTargetAllOrNothing ==
    /\ args.target # None
    /\ coupling_map = None /\ basis_gates = None /\ instruction_durations = None
    /\ inst_map = None /\ timing_constraints = None /\ backend_properties = None

\* Line 144: if target is not None.
UseTarget == args.target # None

\* The target never consulted for a value.
FromTargetNever(current, derived) == current

\* The target's value taken whether or not the caller gave one.
FromTargetAlways(current, derived) == derived

\* Lines 145-156: "if x is None: x = <target accessor>".
FromTarget(current, derived) == IF current = None THEN derived ELSE current

\* The options built from the arguments as passed, not as resolved.
PmOptionsUnresolved ==
    [f \in DOMAIN args \ {"optimization_level", "backend"} |-> args[f]]

\* The options with two method selectors exchanged.
PmOptionsSwapped ==
    [target |-> args.target,
     basis_gates |-> basis_gates,
     inst_map |-> inst_map,
     coupling_map |-> coupling_map,
     instruction_durations |-> instruction_durations,
     backend_properties |-> backend_properties,
     timing_constraints |-> timing_constraints,
     layout_method |-> args.routing_method,
     routing_method |-> args.layout_method,
     translation_method |-> args.translation_method,
     scheduling_method |-> args.scheduling_method,
     approximation_degree |-> args.approximation_degree,
     seed_transpiler |-> args.seed_transpiler,
     unitary_synthesis_method |-> args.unitary_synthesis_method,
     unitary_synthesis_plugin_config |-> args.unitary_synthesis_plugin_config,
     initial_layout |-> args.initial_layout]

\* The options with a default basis substituted for an absent one.
PmOptionsDefaulted ==
    [target |-> args.target,
     basis_gates |-> IF basis_gates = None THEN <<"default_basis">> ELSE basis_gates,
     inst_map |-> inst_map,
     coupling_map |-> coupling_map,
     instruction_durations |-> instruction_durations,
     backend_properties |-> backend_properties,
     timing_constraints |-> timing_constraints,
     layout_method |-> args.layout_method,
     routing_method |-> args.routing_method,
     translation_method |-> args.translation_method,
     scheduling_method |-> args.scheduling_method,
     approximation_degree |-> args.approximation_degree,
     seed_transpiler |-> args.seed_transpiler,
     unitary_synthesis_method |-> args.unitary_synthesis_method,
     unitary_synthesis_plugin_config |-> args.unitary_synthesis_plugin_config,
     initial_layout |-> args.initial_layout]

\* Lines 158-175: pm_options = dict(...).
pm_options ==
    [target |-> args.target,
     basis_gates |-> basis_gates,
     inst_map |-> inst_map,
     coupling_map |-> coupling_map,
     instruction_durations |-> instruction_durations,
     backend_properties |-> backend_properties,
     timing_constraints |-> timing_constraints,
     layout_method |-> args.layout_method,
     routing_method |-> args.routing_method,
     translation_method |-> args.translation_method,
     scheduling_method |-> args.scheduling_method,
     approximation_degree |-> args.approximation_degree,
     seed_transpiler |-> args.seed_transpiler,
     unitary_synthesis_method |-> args.unitary_synthesis_method,
     unitary_synthesis_plugin_config |-> args.unitary_synthesis_plugin_config,
     initial_layout |-> args.initial_layout]

\* PassManagerConfig(**pm_options): the record of the options given.
PassManagerConfig(options) == [f \in DOMAIN options |-> options[f]]

\* PassManagerConfig.from_backend(backend, **pm_options): the options given,
\* with each field still absent taken from the backend.
from_backend(b, options) ==
    [f \in DOMAIN options |->
        IF options[f] # None THEN options[f]
        ELSE IF f \in DerivedFields THEN BackendAccessor(b, f)
        ELSE IF f = "target" THEN backend_target(b)
        ELSE options[f]]

MethodSelectors == <<"layout_method", "routing_method", "translation_method",
                     "scheduling_method">>

RecognisedMethods(f) ==
    CASE f = "layout_method" -> {<<"trivial">>, <<"dense">>, <<"noise_adaptive">>, <<"sabre">>}
      [] f = "routing_method" -> {<<"basic">>, <<"lookahead">>, <<"stochastic">>,
                                  <<"sabre">>, <<"none">>}
      [] f = "translation_method" -> {<<"unroller">>, <<"translator">>, <<"synthesis">>}
      [] f = "scheduling_method" -> {<<"alap">>, <<"asap">>}

Unsupported(config) ==
    {i \in 1..Len(MethodSelectors) :
        /\ config[MethodSelectors[i]] # None
        /\ config[MethodSelectors[i]] \notin RecognisedMethods(MethodSelectors[i])}

\* A pipeline builder: the pipeline for (level, config), or the error it raises.
PipelineBuilder(level, config) ==
    IF Unsupported(config) # {}
    THEN LET i == CHOOSE j \in Unsupported(config) : \A k \in Unsupported(config) : j <= k
         IN <<"UnsupportedMethod", MethodSelectors[i], config[MethodSelectors[i]]>>
    ELSE IF config.routing_method \notin {None, <<"none">>} /\ config.coupling_map = None
    THEN <<"UnresolvedRequirement", "coupling_map">>
    ELSE <<"Pipeline", level, config>>

level_0_pass_manager(config) == PipelineBuilder(0, config)
level_1_pass_manager(config) == PipelineBuilder(1, config)
level_2_pass_manager(config) == PipelineBuilder(2, config)
level_3_pass_manager(config) == PipelineBuilder(3, config)

IsPipeline(r) == r # None /\ r[1] = "Pipeline"

\* The dispatch with every level above 3 served by the level-3 builder.
BranchClamped(level) ==
    IF level = 0 THEN 0
    ELSE IF level = 1 THEN 1
    ELSE IF level = 2 THEN 2
    ELSE IF level >= 3 THEN 3
    ELSE -1

\* The dispatch with the last elif missing.
BranchWithoutLevel3(level) ==
    IF level = 0 THEN 0
    ELSE IF level = 1 THEN 1
    ELSE IF level = 2 THEN 2
    ELSE -1

\* The dispatch with the level-3 builder pasted into the level-2 branch.
BranchCopyPaste(level) ==
    IF level = 0 THEN 0
    ELSE IF level = 1 THEN 1
    ELSE IF level = 2 THEN 3
    ELSE IF level = 3 THEN 3
    ELSE -1

\* Lines 182-191: the if/elif chain; -1 stands for the else branch.
Branch(level) ==
    IF level = 0 THEN 0
    ELSE IF level = 1 THEN 1
    ELSE IF level = 2 THEN 2
    ELSE IF level = 3 THEN 3
    ELSE -1

\* Line 191: ValueError(f"Invalid optimization level {optimization_level}").
InvalidLevel(level) == <<"ValueError", "Invalid optimization level", level>>

Returned(value) == <<"return", value>>
Raised(error) == <<"raise", error>>

NoConfig == [f \in DOMAIN NoArguments \ {"optimization_level", "backend"} |-> None]

Init ==
    /\ pc = "idle"
    /\ args = NoArguments
    /\ coupling_map = None
    /\ basis_gates = None
    /\ instruction_durations = None
    /\ inst_map = None
    /\ timing_constraints = None
    /\ backend_properties = None
    /\ pm_config = NoConfig
    /\ pm = None
    /\ invoked = <<>>
    /\ outcome = None
    /\ remembered = <<>>

\* Entry into the function with arguments a (lines 39-58).
Enter(a) ==
    /\ pc' = "target"
    /\ args' = a
    /\ coupling_map' = Parameters(a).coupling_map
    /\ basis_gates' = Parameters(a).basis_gates
    /\ instruction_durations' = Parameters(a).instruction_durations
    /\ inst_map' = Parameters(a).inst_map
    /\ timing_constraints' = Parameters(a).timing_constraints
    /\ backend_properties' = Parameters(a).backend_properties
    /\ pm_config' = NoConfig
    /\ pm' = None
    /\ invoked' = <<>>
    /\ outcome' = None
    /\ remembered' = IF remembered = <<>> THEN <<>>
                     ELSE <<[remembered[1] EXCEPT
                                !.interleaved = @ \/ a # remembered[1].args]>>

Call ==
    /\ pc = "idle"
    /\ \E level \in Levels, b \in Backends \cup {None}, t \in Targets \cup {None},
          d \in DerivedInputs, n \in NonDerivedInputs :
            Enter(MakeArguments(level, b, t, d, n))

\* Lines 144-156.
TargetStep ==
    /\ pc = "target"
    /\ IF UseTarget
       THEN /\ coupling_map' = FromTarget(coupling_map, target_build_coupling_map(args.target))
            /\ basis_gates' = FromTarget(basis_gates, target_operation_names(args.target))
            /\ instruction_durations' =
                    FromTarget(instruction_durations, target_durations(args.target))
            /\ inst_map' = FromTarget(inst_map, target_instruction_schedule_map(args.target))
            /\ timing_constraints' =
                    FromTarget(timing_constraints, target_timing_constraints(args.target))
            /\ backend_properties' =
                    FromTarget(backend_properties, target_to_backend_properties(args.target))
       ELSE UNCHANGED <<coupling_map, basis_gates, instruction_durations, inst_map,
                        timing_constraints, backend_properties>>
    /\ pc' = "config"
    /\ UNCHANGED <<args, pm_config, pm, invoked, outcome, remembered>>

\* Lines 177-178.
FromBackend ==
    /\ pc = "config"
    /\ args.backend # None
    /\ pm_config' = from_backend(args.backend, pm_options)
    /\ pc' = "dispatch"
    /\ UNCHANGED <<args, coupling_map, basis_gates, instruction_durations, inst_map,
                   timing_constraints, backend_properties, pm, invoked, outcome,
                   remembered>>

\* Lines 179-180.
Construct ==
    /\ pc = "config"
    /\ args.backend = None
    /\ pm_config' = PassManagerConfig(pm_options)
    /\ pc' = "dispatch"
    /\ UNCHANGED <<args, coupling_map, basis_gates, instruction_durations, inst_map,
                   timing_constraints, backend_properties, pm, invoked, outcome,
                   remembered>>

\* One branch of lines 182-189: the level's builder is called with pm_config;
\* its pipeline is bound to pm, or the error it raises leaves the function.
Build(level, result) ==
    /\ pc = "dispatch"
    /\ Branch(args.optimization_level) = level
    /\ invoked' = Append(invoked, <<level, pm_config>>)
    /\ IF IsPipeline(result)
       THEN /\ pm' = result
            /\ pc' = "return"
            /\ UNCHANGED outcome
       ELSE /\ outcome' = Raised(result)
            /\ pc' = "done"
            /\ UNCHANGED pm
    /\ UNCHANGED <<args, coupling_map, basis_gates, instruction_durations, inst_map,
                   timing_constraints, backend_properties, pm_config, remembered>>

Level0 == Build(0, level_0_pass_manager(pm_config))
Level1 == Build(1, level_1_pass_manager(pm_config))
Level2 == Build(2, level_2_pass_manager(pm_config))
Level3 == Build(3, level_3_pass_manager(pm_config))

\* Lines 190-191.
RaiseInvalid ==
    /\ pc = "dispatch"
    /\ Branch(args.optimization_level) = -1
    /\ outcome' = Raised(InvalidLevel(args.optimization_level))
    /\ pc' = "done"
    /\ UNCHANGED <<args, coupling_map, basis_gates, instruction_durations, inst_map,
                   timing_constraints, backend_properties, pm_config, pm, invoked,
                   remembered>>

\* Line 192.
Return ==
    /\ pc = "return"
    /\ outcome' = Returned(pm)
    /\ pc' = "done"
    /\ UNCHANGED <<args, coupling_map, basis_gates, instruction_durations, inst_map,
                   timing_constraints, backend_properties, pm_config, pm, invoked,
                   remembered>>

\* The caller has the outcome; the frame and its bindings are discarded.
Exit ==
    /\ pc = "done"
    /\ pc' = "idle"
    /\ args' = NoArguments
    /\ coupling_map' = None
    /\ basis_gates' = None
    /\ instruction_durations' = None
    /\ inst_map' = None
    /\ timing_constraints' = None
    /\ backend_properties' = None
    /\ pm_config' = NoConfig
    /\ pm' = None
    /\ invoked' = <<>>
    /\ outcome' = None
    /\ UNCHANGED remembered

Next ==
    \/ Call
    \/ TargetStep
    \/ FromBackend
    \/ Construct
    \/ Level0
    \/ Level1
    \/ Level2
    \/ Level3
    \/ RaiseInvalid
    \/ Return
    \/ Exit

Spec == Init /\ [][Next]_vars

---------------------------------------------------------------------------
\* Repeated calls: a call is made while the values the previous call left
\* behind are still in place, and one completed call is kept for comparison.

\* Repeated calls give all of the derived fields explicitly or none, and
\* leave the non-derived parameters at their defaults.
DetDerivedInputs == {[f \in DerivedFields |-> 0], [f \in DerivedFields |-> 1]}

CallAgain ==
    /\ pc \in {"idle", "done"}
    /\ \E level \in Levels, b \in Backends \cup {None}, t \in Targets \cup {None},
          d \in DetDerivedInputs :
            Enter(MakeArguments(level, b, t, d,
                                [f \in NonDerivedFields |-> SignatureDefault(f)]))

Remember ==
    /\ pc = "done"
    /\ remembered = <<>>
    /\ remembered' = <<[args |-> args, config |-> pm_config, outcome |-> outcome,
                        interleaved |-> FALSE]>>
    /\ UNCHANGED <<pc, args, coupling_map, basis_gates, instruction_durations, inst_map,
                   timing_constraints, backend_properties, pm_config, pm, invoked,
                   outcome>>

NextDet ==
    \/ CallAgain
    \/ Remember
    \/ TargetStep
    \/ FromBackend
    \/ Construct
    \/ Level0
    \/ Level1
    \/ Level2
    \/ Level3
    \/ RaiseInvalid
    \/ Return

SpecDet == Init /\ [][NextDet]_vars

---------------------------------------------------------------------------
\* Properties.

ConfigBuilt == pc \in {"dispatch", "return", "done"}
ValidLevel == args.optimization_level \in {0, 1, 2, 3}
NoExplicitDerived == \A f \in DerivedFields : args[f] = None

\* C1: a call whose optimization_level is outside {0,1,2,3} binds no pass
\* manager, never reaches the return statement, and ends by raising the
\* ValueError that carries the offending level, whatever the other arguments.
C1_InvalidLevelRaises ==
    (pc # "idle" /\ ~ValidLevel) =>
        /\ pm = None
        /\ pc # "return"
        /\ pc = "done" =>
            /\ outcome[1] = "raise"
            /\ outcome[2][1] = "ValueError"
            /\ outcome[2][3] = args.optimization_level

C1_Witness ==
    /\ pc = "done"
    /\ args.optimization_level = 7
    /\ args.target # None
    /\ args.backend # None
    /\ args.basis_gates # None
    /\ outcome = <<"raise", <<"ValueError", "Invalid optimization level", 7>>>>

\* C2: a derived field the caller supplied explicitly is held unchanged by
\* the PassManagerConfig, and by the config handed to the builder, whether a
\* target, a backend, both or neither is supplied.
C2_ExplicitWins ==
    ConfigBuilt =>
        \A f \in DerivedFields :
            args[f] # None =>
                /\ pm_config[f] = args[f]
                /\ \A i \in 1..Len(invoked) : invoked[i][2][f] = args[f]

C2_Witness ==
    /\ pc = "done"
    /\ args.target # None
    /\ args.backend # None
    /\ args.basis_gates # None
    /\ args.coupling_map = None
    /\ Len(invoked) = 1
    /\ invoked[1][2].basis_gates = args.basis_gates
    /\ invoked[1][2].basis_gates # target_operation_names(args.target)

\* C3: with a target only (no backend, no derived field given explicitly)
\* each of the six derived fields of the config is the value of the
\* corresponding target accessor, and none is absent.
C3_TargetOnly ==
    (ConfigBuilt /\ args.target # None /\ args.backend = None /\ NoExplicitDerived) =>
        /\ pm_config.coupling_map = target_build_coupling_map(args.target)
        /\ pm_config.basis_gates = target_operation_names(args.target)
        /\ pm_config.instruction_durations = target_durations(args.target)
        /\ pm_config.inst_map = target_instruction_schedule_map(args.target)
        /\ pm_config.timing_constraints = target_timing_constraints(args.target)
        /\ pm_config.backend_properties = target_to_backend_properties(args.target)
        /\ \A f \in DerivedFields : pm_config[f] # None

C3_Witness ==
    /\ pc = "done"
    /\ args.target # None
    /\ args.backend = None
    /\ NoExplicitDerived
    /\ outcome[1] = "return"
    /\ pm_config.coupling_map = target_build_coupling_map(args.target)

\* C4: with a target and a backend and no derived field given explicitly,
\* every derived field of the config is the target's value, not the
\* backend's, which differs from it.
C4_TargetBeforeBackend ==
    (ConfigBuilt /\ args.target # None /\ args.backend # None /\ NoExplicitDerived) =>
        \A f \in DerivedFields :
            /\ pm_config[f] = TargetAccessor(args.target, f)
            /\ pm_config[f] # BackendAccessor(args.backend, f)

C4_Witness ==
    /\ pc = "done"
    /\ args.target # None
    /\ args.backend # None
    /\ NoExplicitDerived
    /\ pm_config.timing_constraints = target_timing_constraints(args.target)
    /\ BackendAccessor(args.backend, "timing_constraints")
          # target_timing_constraints(args.target)

\* C5: the level-k builder is called exactly when optimization_level is k,
\* once, with the resolved config, and what it produces is how the call ends;
\* for a level outside {0,1,2,3} no builder is called.
C5_DirectDispatch ==
    /\ Len(invoked) <= 1
    /\ \A i \in 1..Len(invoked) :
          /\ invoked[i][1] = args.optimization_level
          /\ invoked[i][1] \in {0, 1, 2, 3}
          /\ invoked[i][2] = pm_config
    /\ pc \in {"return", "done"} =>
          IF ValidLevel
          THEN /\ Len(invoked) = 1
               /\ pc = "return" => pm = <<"Pipeline", args.optimization_level, pm_config>>
               /\ (pc = "done" /\ outcome[1] = "return") =>
                      outcome[2] = <<"Pipeline", args.optimization_level, pm_config>>
          ELSE invoked = <<>>

C5_Witness ==
    /\ pc = "done"
    /\ args.optimization_level = 2
    /\ invoked = <<<<2, pm_config>>>>
    /\ outcome = <<"return", <<"Pipeline", 2, pm_config>>>>

\* C6 (as stated): with a level in {0,1,2,3} the call always ends by
\* returning a Pipeline, whatever the other arguments.
C6_AlwaysReturns ==
    (pc = "done" /\ ValidLevel) => (outcome[1] = "return" /\ IsPipeline(outcome[2]))

\* C6 (amended): with a level in {0,1,2,3} the call ends as the level's
\* builder does: it returns the builder's Pipeline, or the builder's own
\* error propagates unmodified; no ValueError is raised.
C6_ReturnsOrBuilderError ==
    (pc = "done" /\ ValidLevel) =>
        LET result == PipelineBuilder(args.optimization_level, pm_config)
        IN /\ outcome = IF IsPipeline(result) THEN <<"return", result>>
                        ELSE <<"raise", result>>
           /\ outcome[2][1] \in {"Pipeline", "UnsupportedMethod", "UnresolvedRequirement"}

C6_Witness ==
    /\ pc = "done"
    /\ args.optimization_level = 3
    /\ args.target = None
    /\ args.backend = None
    /\ NoExplicitDerived
    /\ outcome[1] = "return"
    /\ IsPipeline(outcome[2])

\* C7: the nine non-derived fields reach the config exactly as the caller
\* gave them, with or without a target or a backend; an absent one stays
\* absent and unitary_synthesis_method keeps its default.
C7_NonDerivedPassThrough ==
    ConfigBuilt =>
        \A f \in NonDerivedFields :
            /\ pm_config[f] = args[f]
            /\ \A i \in 1..Len(invoked) : invoked[i][2][f] = args[f]

C7_Witness ==
    /\ pc = "done"
    /\ args.target # None
    /\ args.backend # None
    /\ args.layout_method = <<"sabre">>
    /\ pm_config.layout_method = <<"sabre">>
    /\ pm_config.routing_method = None
    /\ pm_config.seed_transpiler = None
    /\ pm_config.unitary_synthesis_method = <<"default">>

\* C8: with neither a target nor a backend, a derived field the caller did
\* not supply is absent in the config handed to the builder.
C8_NoDefaultSubstituted ==
    (ConfigBuilt /\ args.target = None /\ args.backend = None) =>
        \A f \in DerivedFields :
            args[f] = None =>
                /\ pm_config[f] = None
                /\ \A i \in 1..Len(invoked) : invoked[i][2][f] = None

C8_Witness ==
    /\ pc = "done"
    /\ args.target = None
    /\ args.backend = None
    /\ args.coupling_map # None
    /\ args.basis_gates = None
    /\ Len(invoked) = 1
    /\ invoked[1][2].basis_gates = None
    /\ invoked[1][2].coupling_map = args.coupling_map

\* C9: a completed call with the arguments of an earlier completed call has
\* the same resolved config and the same outcome (returned pipeline or raised
\* error), whatever calls were made in between.
C9_Deterministic ==
    (pc = "done" /\ remembered # <<>> /\ remembered[1].args = args) =>
        /\ remembered[1].config = pm_config
        /\ remembered[1].outcome = outcome

C9_Witness ==
    /\ pc = "done"
    /\ remembered # <<>>
    /\ remembered[1].interleaved
    /\ remembered[1].args = args
    /\ args.target = None
    /\ NoExplicitDerived
    /\ outcome[1] = "return"

\* C10: each derived field of the config has the value of exactly one source,
\* chosen for that field alone: the explicit argument if given, else the
\* target if given, else the backend if given, else absent.
SourceValue(source, f) ==
    CASE source = "explicit" -> args[f]
      [] source = "target" -> IF args.target = None THEN None
                              ELSE TargetAccessor(args.target, f)
      [] source = "backend" -> IF args.backend = None THEN None
                               ELSE BackendAccessor(args.backend, f)
      [] source = "unset" -> None

Precedence(f) ==
    IF args[f] # None THEN "explicit"
    ELSE IF args.target # None THEN "target"
    ELSE IF args.backend # None THEN "backend"
    ELSE "unset"

C10_PerFieldProvenance ==
    ConfigBuilt =>
        \A f \in DerivedFields :
            /\ pm_config[f] = SourceValue(Precedence(f), f)
            /\ pm_config[f] # None =>
                  Cardinality({s \in {"explicit", "target", "backend"} :
                                  pm_config[f] = SourceValue(s, f)}) = 1

C10_Witness ==
    /\ pc = "done"
    /\ args.optimization_level = 1
    /\ args.target # None
    /\ args.backend # None
    /\ args.inst_map # None
    /\ args.coupling_map = None
    /\ args.backend_properties = None
    /\ pm_config.inst_map = args.inst_map
    /\ pm_config.coupling_map = target_build_coupling_map(args.target)
    /\ pm_config.backend_properties = target_to_backend_properties(args.target)

====
